---- MODULE Spec2Model ----
(***************************************************************************)
(* Reverse-mode automatic differentiation over scalars (pyfit/engine.py).  *)
(* A state is the collection of Scalar objects built so far, the position  *)
(* of a running backward() call, and the exception surfaced by the most    *)
(* recent call.                                                            *)
(*                                                                         *)
(* Python numbers are modelled as typed exact rationals: a value is a      *)
(* record [k, v] where k is the Python type ("int", "float", "str") and v  *)
(* a normalised fraction <<numerator, denominator>>.  All strings are      *)
(* abstracted to one value.  Float multiplication and division underflow   *)
(* to zero below 1/FloatTinyDen, the scaled-down image of IEEE-754         *)
(* underflow; other rounding is not modelled.                              *)
(***************************************************************************)
EXTENDS Integers, Sequences, FiniteSets, TLC

\* ------------------------------------------------------------- bounds
\* operators are applied while the graph has fewer nodes than this
MaxNodes == 4
\* the same, in the specification that exercises every operator and input
MaxNodesAll == 3
\* calls of backward() in one behaviour
MaxBackward == 2
\* largest numerator and denominator of a forward value
MaxNum == 12
\* float results underflow to zero below 1 / FloatTinyDen
FloatTinyDen == 2

\* ------------------------------------------------------------- rationals
Abs(n) == IF n < 0 THEN -n ELSE n

RECURSIVE GCD(_, _)
GCD(a, b) == IF b = 0 THEN a ELSE GCD(b, a % b)

Norm(n, d) ==
  LET g == GCD(Abs(n), Abs(d))
      s == IF d < 0 THEN -1 ELSE 1
  IN  <<(s * n) \div g, (s * d) \div g>>

QAdd(x, y) == Norm(x[1] * y[2] + y[1] * x[2], x[2] * y[2])
QSub(x, y) == Norm(x[1] * y[2] - y[1] * x[2], x[2] * y[2])
QMul(x, y) == Norm(x[1] * y[1], x[2] * y[2])
QDiv(x, y) == Norm(x[1] * y[2], x[2] * y[1])
QZero == <<0, 1>>
QOne == <<1, 1>>

\* IEEE-754 underflow of a float result, scaled down: a non-zero magnitude
\* below 1/FloatTinyDen becomes 0.0.
Underflow(q) == IF q[1] # 0 /\ Abs(q[1]) * FloatTinyDen < q[2] THEN QZero ELSE q

\* ------------------------------------------------------------- Python values
PyInt(n) == [k |-> "int", v |-> <<n, 1>>]
PyFloat(n, d) == [k |-> "float", v |-> Norm(n, d)]
PyStr == [k |-> "str", v |-> QZero]
Raise(e) == [k |-> e, v |-> QZero]

Exceptions == {"TypeError", "AttributeError", "ZeroDivisionError"}
IsErr(x) == x.k \in Exceptions
IsNum(x) == x.k \in {"int", "float"}
NumKind(x, y) == IF x.k = "int" /\ y.k = "int" THEN "int" ELSE "float"

\* x + y
PyAdd(x, y) ==
  IF IsErr(x) THEN x ELSE IF IsErr(y) THEN y
  ELSE IF IsNum(x) /\ IsNum(y) THEN [k |-> NumKind(x, y), v |-> QAdd(x.v, y.v)]
  ELSE IF x.k = "str" /\ y.k = "str" THEN PyStr
  ELSE Raise("TypeError")

\* x - y
PySub(x, y) ==
  IF IsErr(x) THEN x ELSE IF IsErr(y) THEN y
  ELSE IF IsNum(x) /\ IsNum(y) THEN [k |-> NumKind(x, y), v |-> QSub(x.v, y.v)]
  ELSE Raise("TypeError")

\* x * y  (str * int repeats the string)
PyMul(x, y) ==
  IF IsErr(x) THEN x ELSE IF IsErr(y) THEN y
  ELSE IF IsNum(x) /\ IsNum(y)
       THEN IF NumKind(x, y) = "int"
            THEN [k |-> "int", v |-> QMul(x.v, y.v)]
            ELSE [k |-> "float", v |-> Underflow(QMul(x.v, y.v))]
  ELSE IF (x.k = "str" /\ y.k = "int") \/ (x.k = "int" /\ y.k = "str") THEN PyStr
  ELSE Raise("TypeError")

\* x / y  (true division: always a float, ZeroDivisionError on a zero divisor)
PyDiv(x, y) ==
  IF IsErr(x) THEN x ELSE IF IsErr(y) THEN y
  ELSE IF IsNum(x) /\ IsNum(y)
       THEN IF y.v[1] = 0 THEN Raise("ZeroDivisionError")
            ELSE [k |-> "float", v |-> Underflow(QDiv(x.v, y.v))]
  ELSE Raise("TypeError")

\* the binary operator written sym
PyOp(sym, x, y) ==
  CASE sym = "+" -> PyAdd(x, y)
    [] sym = "-" -> PySub(x, y)
    [] sym = "*" -> PyMul(x, y)
    [] sym = "/" -> PyDiv(x, y)

\* -x
PyNeg(x) ==
  IF IsErr(x) THEN x
  ELSE IF IsNum(x) THEN [k |-> x.k, v |-> <<-x.v[1], x.v[2]>>]
  ELSE Raise("TypeError")

\* 0 if x < 0 else x
PyRelu(x) ==
  IF IsNum(x) THEN (IF x.v[1] < 0 THEN PyInt(0) ELSE x) ELSE Raise("TypeError")

\* (x > 0), a bool, which multiplies as the int 1 or 0
PyGt0(x) == IF x.v[1] > 0 THEN PyInt(1) ELSE PyInt(0)

\* ------------------------------------------------------------- inputs
\* The numeric literals and raw operands user code passes in.
Literals == {PyInt(-5), PyInt(0), PyInt(5), PyFloat(1, 2), PyStr}
RawScalars == {PyInt(2), PyFloat(1, 2), PyFloat(0, 1), PyStr}

\* ------------------------------------------------------------- state
VARIABLES
  nodes,    \* the Scalar objects, by identity 1..Len(nodes)
  pc,       \* "idle", or "loop" while backward() iterates reversed(topo)
  topo,     \* backward()'s local list topo
  i,        \* position of the loop in topo: topo[i] is invoked next
  calls,    \* the terminals backward() has been called on, in order
  raised    \* the exception the most recent call surfaced, "" if none

vars == <<nodes, pc, topo, i, calls, raised>>

Ids == 1..Len(nodes)

\* Scalar.__init__: grad 0, _backward a no-op until the operator replaces it.
\* self_ and other_ are the variables the _backward closure captures.
Scalar(data, children, op, self_, other_) ==
  [data |-> data, grad |-> PyInt(0), prev |-> children, op |-> op,
   self |-> self_, other |-> other_]

InRange(x) == Abs(x.v[1]) <= MaxNum /\ x.v[2] <= MaxNum

Init ==
  /\ nodes = <<>>
  /\ pc = "idle"
  /\ topo = <<>>
  /\ i = 0
  /\ calls = <<>>
  /\ raised = ""

\* Scalar(data): a leaf from a literal.  __init__ checks nothing.
Leaf(data) ==
  /\ pc = "idle"
  /\ nodes' = Append(nodes, Scalar(data, {}, "", 0, 0))
  /\ raised' = ""
  /\ UNCHANGED <<pc, topo, i, calls>>

\* The right-hand argument of an operator: a Scalar (by identity) or a raw object.
Ref(n) == [k |-> "Scalar", v |-> <<n, 1>>]
Others == {Ref(n) : n \in Ids} \cup RawScalars

\* _other = self_type(other) if isinstance(other, float) else other
\* A float is lifted to a new leaf; anything else is used as it is.  id = 0
\* stands for a raw object that is not a Scalar.
Coerce(other) ==
  IF other.k = "float"
  THEN [ns |-> Append(nodes, Scalar(other, {}, "", 0, 0)), id |-> Len(nodes) + 1]
  ELSE IF other.k = "Scalar" THEN [ns |-> nodes, id |-> other.v[1]]
  ELSE [ns |-> nodes, id |-> 0]

\* The call raises e: no node is built.  (A leaf lifted from a float before
\* the raise is referenced by nothing and is not part of the state.)
Fail(e) ==
  /\ pc = "idle"
  /\ raised' = e
  /\ UNCHANGED <<nodes, pc, topo, i, calls>>

\* out = self_type(a.data sym b.data, (a, b), sym), with its _backward closure
\* over a, b and out.  Reading .data of a raw object raises AttributeError.
Binary(ns, a, b, sym) ==
  LET d == IF b = 0 THEN Raise("AttributeError") ELSE PyOp(sym, ns[a].data, ns[b].data)
  IN  IF IsErr(d) THEN Fail(d.k)
      ELSE /\ pc = "idle"
           /\ InRange(d)
           /\ nodes' = Append(ns, Scalar(d, {a, b}, sym, a, b))
           /\ raised' = ""
           /\ UNCHANGED <<pc, topo, i, calls>>

add(self, other) == LET c == Coerce(other) IN Binary(c.ns, self, c.id, "+")

sub(self, other) == LET c == Coerce(other) IN Binary(c.ns, self, c.id, "-")

mul(self, other) == LET c == Coerce(other) IN Binary(c.ns, self, c.id, "*")

truediv(self, other) == LET c == Coerce(other) IN Binary(c.ns, self, c.id, "/")

radd(self, other) == add(self, other)

rmul(self, other) == mul(self, other)

\* _other.__sub__(self): on an int this is int.__sub__, which answers
\* NotImplemented (the interpreter then raises TypeError); a str has no __sub__.
rsub(self, other) ==
  LET c == Coerce(other)
  IN  IF c.id = 0 THEN Fail(IF other.k = "int" THEN "TypeError" ELSE "AttributeError")
      ELSE Binary(c.ns, c.id, self, "-")

rtruediv(self, other) ==
  LET c == Coerce(other)
  IN  IF c.id = 0 THEN Fail(IF other.k = "int" THEN "TypeError" ELSE "AttributeError")
      ELSE Binary(c.ns, c.id, self, "/")

relu(self) ==
  LET d == PyRelu(nodes[self].data)
  IN  IF IsErr(d) THEN Fail(d.k)
      ELSE /\ pc = "idle"
           /\ nodes' = Append(nodes, Scalar(d, {self}, "ReLU", self, 0))
           /\ raised' = ""
           /\ UNCHANGED <<pc, topo, i, calls>>

\* ------------------------------------------------------------- backward
\* The orders in which "for child in node._prev" can iterate the set.
Orders(S) ==
  {f \in [1..Cardinality(S) -> S] : \A a, b \in 1..Cardinality(S) : f[a] = f[b] => a = b}

RECURSIVE build_topo(_, _)
RECURSIVE build_children(_, _)

\* build_topo appending the node before it walks the children (pre-order)
build_topo_preorder(node, st) ==
  IF node \in st.visited THEN {st}
  ELSE LET st1 == [visited |-> st.visited \cup {node}, topo |-> Append(st.topo, node)]
       IN  UNION {build_children(order, {st1}) : order \in Orders(nodes[node].prev)}

\* build_topo without the visited guard
build_topo_novisit(node, st) ==
  LET st1 == [visited |-> st.visited \cup {node}, topo |-> st.topo]
      done == UNION {build_children(order, {st1}) : order \in Orders(nodes[node].prev)}
  IN  {[visited |-> s.visited, topo |-> Append(s.topo, node)] : s \in done}

\* build_topo(node) run from st = [visited, topo]: the set of results it can
\* leave, one for each iteration order of the sets it walks.
build_topo(node, st) ==
  IF node \in st.visited THEN {st}
  ELSE LET st1 == [visited |-> st.visited \cup {node}, topo |-> st.topo]
           done == UNION {build_children(order, {st1}) : order \in Orders(nodes[node].prev)}
       IN  {[visited |-> s.visited, topo |-> Append(s.topo, node)] : s \in done}

\* the loop body build_topo(child), for the children in the given order
build_children(order, S) ==
  IF order = <<>> THEN S
  ELSE build_children(Tail(order), UNION {build_topo(Head(order), s) : s \in S})

\* AugAssign with the gradient overwritten instead of accumulated
AugAssign_overwrite(st, target, sym, rhs) ==
  IF st.err # "" THEN st
  ELSE LET g == PyOp(sym, PyInt(0), rhs)
       IN  IF IsErr(g) THEN [ns |-> st.ns, err |-> g.k]
           ELSE [ns |-> [st.ns EXCEPT ![target].grad = g], err |-> ""]

\* target.grad += rhs (sym "+") or target.grad -= rhs (sym "-"): one augmented
\* assignment of a rule.  A statement that raises leaves the rule, and what
\* ran before it stays done.
AugAssign(st, target, sym, rhs) ==
  IF st.err # "" THEN st
  ELSE LET g == PyOp(sym, st.ns[target].grad, rhs)
       IN  IF IsErr(g) THEN [ns |-> st.ns, err |-> g.k]
           ELSE [ns |-> [st.ns EXCEPT ![target].grad = g], err |-> ""]

Start(ns) == [ns |-> ns, err |-> ""]

add_backward(ns, out) ==
  LET n == ns[out]
      s1 == AugAssign(Start(ns), n.self, "+", ns[out].grad)
  IN  AugAssign(s1, n.other, "+", s1.ns[out].grad)

sub_backward(ns, out) ==
  LET n == ns[out]
      s1 == AugAssign(Start(ns), n.self, "+", ns[out].grad)
  IN  AugAssign(s1, n.other, "-", s1.ns[out].grad)

\* the multiply rule with each operand given its own value as partial
mul_backward_swapped(ns, out) ==
  LET n == ns[out]
      s1 == AugAssign(Start(ns), n.self, "+", PyMul(ns[out].grad, ns[n.self].data))
  IN  AugAssign(s1, n.other, "+", PyMul(s1.ns[out].grad, s1.ns[n.other].data))

mul_backward(ns, out) ==
  LET n == ns[out]
      s1 == AugAssign(Start(ns), n.self, "+", PyMul(ns[out].grad, ns[n.other].data))
  IN  AugAssign(s1, n.other, "+", PyMul(s1.ns[out].grad, s1.ns[n.self].data))

truediv_backward(ns, out) ==
  LET n == ns[out]
      s1 == AugAssign(Start(ns), n.self, "+", PyDiv(ns[out].grad, ns[n.other].data))
      sq == PyMul(s1.ns[n.other].data, s1.ns[n.other].data)
  IN  AugAssign(s1, n.other, "+",
                PyMul(s1.ns[out].grad, PyDiv(PyNeg(s1.ns[n.self].data), sq)))

\* the ReLU rule passing the gradient at an output of exactly 0 too
relu_backward_ge(ns, out) ==
  LET n == ns[out]
  IN  AugAssign(Start(ns), n.self, "+",
                PyMul(IF ns[out].data.v[1] >= 0 THEN PyInt(1) ELSE PyInt(0), ns[out].grad))

relu_backward(ns, out) ==
  LET n == ns[out]
  IN  AugAssign(Start(ns), n.self, "+", PyMul(PyGt0(ns[out].data), ns[out].grad))

\* node._backward(): the closure the creating operator attached, or the
\* constructor's "lambda: None".
Invoke(ns, node) ==
  CASE ns[node].op = "+" -> add_backward(ns, node)
    [] ns[node].op = "-" -> sub_backward(ns, node)
    [] ns[node].op = "*" -> mul_backward(ns, node)
    [] ns[node].op = "/" -> truediv_backward(ns, node)
    [] ns[node].op = "ReLU" -> relu_backward(ns, node)
    [] OTHER -> Start(ns)

\* backward() zeroing every gradient before it seeds the terminal
backward_zeroing(self) ==
  /\ pc = "idle"
  /\ Len(calls) < MaxBackward
  /\ \E st \in build_topo(self, [visited |-> {}, topo |-> <<>>]) :
       /\ topo' = st.topo
       /\ i' = Len(st.topo)
  /\ nodes' = [n \in Ids |-> [nodes[n] EXCEPT !.grad = IF n = self THEN PyInt(1) ELSE PyInt(0)]]
  /\ pc' = "loop"
  /\ calls' = Append(calls, self)
  /\ raised' = ""

\* backward(), up to the loop: build topo, seed self.grad = 1.
backward(self) ==
  /\ pc = "idle"
  /\ Len(calls) < MaxBackward
  /\ \E st \in build_topo(self, [visited |-> {}, topo |-> <<>>]) :
       /\ topo' = st.topo
       /\ i' = Len(st.topo)
  /\ nodes' = [nodes EXCEPT ![self].grad = PyInt(1)]
  /\ pc' = "loop"
  /\ calls' = Append(calls, self)
  /\ raised' = ""

\* one iteration of "for node in reversed(topo): node._backward()"
backward_step ==
  /\ pc = "loop"
  /\ i >= 1
  /\ LET st == Invoke(nodes, topo[i])
     IN  /\ nodes' = st.ns
         /\ raised' = st.err
         /\ IF st.err = ""
            THEN /\ i' = i - 1
                 /\ UNCHANGED <<pc, topo>>
            ELSE /\ pc' = "idle"
                 /\ topo' = <<>>
                 /\ i' = 0
  /\ UNCHANGED calls

\* the loop is exhausted: backward() returns
backward_return ==
  /\ pc = "loop"
  /\ i = 0
  /\ pc' = "idle"
  /\ topo' = <<>>
  /\ UNCHANGED <<nodes, i, calls, raised>>

\* ------------------------------------------------------------- specifications
\* Every operation, on every kind of input.
Small == Len(nodes) < MaxNodesAll

Next ==
  \/ \E d \in Literals : Small /\ Leaf(d)
  \/ \E s \in Ids, o \in Others : Small /\ add(s, o)
  \/ \E s \in Ids, o \in Others : Small /\ sub(s, o)
  \/ \E s \in Ids, o \in Others : Small /\ mul(s, o)
  \/ \E s \in Ids, o \in Others : Small /\ truediv(s, o)
  \/ \E s \in Ids, o \in RawScalars : Small /\ radd(s, o)
  \/ \E s \in Ids, o \in RawScalars : Small /\ rsub(s, o)
  \/ \E s \in Ids, o \in RawScalars : Small /\ rmul(s, o)
  \/ \E s \in Ids, o \in RawScalars : Small /\ rtruediv(s, o)
  \/ \E s \in Ids : Small /\ relu(s)
  \/ \E t \in Ids : backward(t)
  \/ backward_step
  \/ backward_return

Spec == Init /\ [][Next]_vars

Room == Len(nodes) < MaxNodes

\* Integer leaves under add, subtract and multiply.
IntLiterals == {PyInt(2), PyInt(3)}

NextArith ==
  \/ \E d \in IntLiterals : Room /\ Leaf(d)
  \/ \E s \in Ids, o \in Ids : Room /\ add(s, Ref(o))
  \/ \E s \in Ids, o \in Ids : Room /\ sub(s, Ref(o))
  \/ \E s \in Ids, o \in Ids : Room /\ mul(s, Ref(o))
  \/ \E t \in Ids : backward(t)
  \/ backward_step
  \/ backward_return

SpecArith == Init /\ [][NextArith]_vars

\* Every operator between nodes, over one literal: the shapes of graphs.
NextGraph ==
  \/ Room /\ Leaf(PyInt(2))
  \/ \E s \in Ids, o \in Ids : Room /\ add(s, Ref(o))
  \/ \E s \in Ids, o \in Ids : Room /\ sub(s, Ref(o))
  \/ \E s \in Ids, o \in Ids : Room /\ mul(s, Ref(o))
  \/ \E s \in Ids, o \in Ids : Room /\ truediv(s, Ref(o))
  \/ \E s \in Ids : Room /\ relu(s)
  \/ \E t \in Ids : backward(t)
  \/ backward_step
  \/ backward_return

SpecGraph == Init /\ [][NextGraph]_vars

\* ------------------------------------------------------------- graph notions
\* the nodes reachable from t through the operand relation _prev
RECURSIVE Reach(_)
Reach(t) == {t} \cup UNION {Reach(c) : c \in nodes[t].prev}

\* the consumers of n among the nodes reachable from t
Consumers(t, n) == {c \in Reach(t) : n \in nodes[c].prev}

IsLeaf(n) == nodes[n].prev = {}

RECURSIVE SumOver(_, _)
SumOver(S, f) ==
  IF S = {} THEN 0
  ELSE LET x == CHOOSE y \in S : TRUE IN f[x] + SumOver(S \ {x}, f)

\* The chain-rule partials of an integer add/subtract/multiply node c with
\* respect to its first and second operand slot.
DSelf(c) == IF nodes[c].op = "*" THEN nodes[nodes[c].other].data.v[1] ELSE 1
DOther(c) ==
  IF nodes[c].op = "*" THEN nodes[nodes[c].self].data.v[1]
  ELSE IF nodes[c].op = "-" THEN -1 ELSE 1

\* d(c)/d(n), a node used in both slots counting twice
Partial(c, n) ==
  (IF nodes[c].self = n THEN DSelf(c) ELSE 0) + (IF nodes[c].other = n THEN DOther(c) ELSE 0)

\* sum over the operand paths from t down to n of the product of the partials
RECURSIVE PathSum(_, _)
PathSum(t, n) ==
  IF n = t THEN 1
  ELSE SumOver(Consumers(t, n), [c \in Consumers(t, n) |-> PathSum(t, c) * Partial(c, n)])

\* every node reachable from t is an integer leaf or an add, subtract or
\* multiply of such nodes
ArithGraph(t) ==
  \A n \in Reach(t) :
    /\ nodes[n].op \in {"", "+", "-", "*"}
    /\ IsNum(nodes[n].data)
    /\ nodes[n].data.v[2] = 1

\* the terminal of the latest backward() call
Term == calls[Len(calls)]

\* the nodes whose rule the running loop has invoked so far
Invoked == {topo[k] : k \in (i + 1)..Len(topo)}

\* the first backward() call has returned, and it was on t
FirstRunDone(t) == pc = "idle" /\ calls = <<t>>

\* ------------------------------------------------------------- claims

\* C1: on an integer add/subtract/multiply graph whose gradients are all 0
\* (no backward() has run before), one backward() on t leaves t.grad = 1 and
\* every other reachable node with the sum over operand paths of the product
\* of the local partials.
C1_ChainRule ==
  \A t \in Ids :
    (FirstRunDone(t) /\ ArithGraph(t)) =>
      /\ nodes[t].grad.v = <<1, 1>>
      /\ \A n \in Reach(t) \ {t} : nodes[n].grad.v = <<PathSum(t, n), 1>>

\* a = 3, b = a + a, b.backward(): a.grad = 2
C1_Witness ==
  \E a, b \in Ids :
    /\ FirstRunDone(b)
    /\ nodes[a].data = PyInt(3) /\ IsLeaf(a)
    /\ nodes[b].op = "+" /\ nodes[b].self = a /\ nodes[b].other = a
    /\ nodes[a].grad.v = <<2, 1>>

\* C2: when the loop of backward() is about to invoke the rule of a node n,
\* the rule of every consumer of n reachable from the terminal has been
\* invoked and n itself has not; so, on a first run over an integer
\* add/subtract/multiply graph, the gradient the rule reads is already the
\* full path sum.
C2_ConsumersFirst ==
  (pc = "loop" /\ i >= 1) =>
    LET n == topo[i]
    IN  /\ n \notin Invoked
        /\ Consumers(Term, n) \subseteq Invoked
        /\ (Len(calls) = 1 /\ ArithGraph(Term)) =>
             nodes[n].grad.v = <<PathSum(Term, n), 1>>

\* a diamond: the rule of a node with two distinct consumers is about to run
C2_Witness ==
  /\ pc = "loop" /\ i >= 1
  /\ Cardinality(Consumers(Term, topo[i])) >= 2
  /\ Len(calls) = 1 /\ ArithGraph(Term)

\* a chain of depth 3: the rule of the node at the bottom is about to run
C2_WitnessChain ==
  /\ pc = "loop" /\ i >= 1
  /\ \E b, c \in Ids :
       /\ Consumers(Term, topo[i]) = {b}
       /\ Consumers(Term, b) = {c}
       /\ Consumers(Term, c) = {Term}

\* C9: the sequence backward() builds holds exactly the nodes reachable from
\* the terminal, each once, every node after all its operands and the
\* terminal last; the loop walks it backwards, so when it is exhausted every
\* reachable node's rule has been invoked, once.  For a leaf terminal the
\* sequence is just the terminal, with gradient 1.
C9_TopoExact ==
  pc = "loop" =>
    /\ {topo[k] : k \in 1..Len(topo)} = Reach(Term)
    /\ \A j, k \in 1..Len(topo) : topo[j] = topo[k] => j = k
    /\ \A k \in 1..Len(topo) : \A c \in nodes[topo[k]].prev :
         \E j \in 1..(k - 1) : topo[j] = c
    /\ topo[Len(topo)] = Term
    /\ i \in 0..Len(topo)
    /\ Cardinality(Invoked) = Len(topo) - i
    /\ i = 0 => Invoked = Reach(Term)
    /\ IsLeaf(Term) => (topo = <<Term>> /\ nodes[Term].grad = PyInt(1))

\* the loop is exhausted on a graph where one node is the operand of two
\* consumers and two distinct nodes hold the same value
C9_Witness ==
  /\ pc = "loop" /\ i = 0
  /\ \E n \in Reach(Term) : Cardinality(Consumers(Term, n)) >= 2
  /\ \E m, n \in Reach(Term) : m # n /\ nodes[m].data = nodes[n].data

\* the loop of backward() from position k, run to its end (or to the first
\* rule that raises)
RECURSIVE RunLoop(_, _, _)
RunLoop(ns, tp, k) ==
  IF k = 0 THEN ns
  ELSE LET st == Invoke(ns, tp[k])
       IN  IF st.err # "" THEN st.ns ELSE RunLoop(st.ns, tp, k - 1)

\* the gradients a single backward() on t leaves on the present graph when
\* every gradient is 0 before it
SingleRun(t) ==
  LET zero == [n \in Ids |-> [nodes[n] EXCEPT !.grad = PyInt(0)]]
      tp == (CHOOSE st \in build_topo(t, [visited |-> {}, topo |-> <<>>]) : TRUE).topo
  IN  RunLoop([zero EXCEPT ![t].grad = PyInt(1)], tp, Len(tp))

Twice(q) == QAdd(q, q)

\* backward() has been called exactly twice, both times on t, and has returned
TwoRunsDone(t) == pc = "idle" /\ calls = <<t, t>>

\* C3 as stated: after two runs on the same terminal every leaf has exactly
\* twice its single-run gradient.  (A terminal that is itself a leaf, which
\* backward() resets to 1 on every run, is left aside.)
C3_EveryLeafDoubled ==
  \A t \in Ids :
    (TwoRunsDone(t) /\ ArithGraph(t)) =>
      \A n \in Reach(t) \ {t} :
        IsLeaf(n) => nodes[n].grad.v = Twice(SingleRun(t)[n].grad.v)

\* C3 amended: after two runs on the same terminal of an integer
\* add/subtract/multiply graph, every leaf whose only consumer reachable from
\* the terminal is the terminal itself has exactly twice its single-run
\* gradient.
C3_DirectLeafDoubled ==
  \A t \in Ids :
    (TwoRunsDone(t) /\ ArithGraph(t)) =>
      \A n \in Reach(t) :
        (IsLeaf(n) /\ Consumers(t, n) = {t}) =>
          nodes[n].grad.v = Twice(SingleRun(t)[n].grad.v)

\* a * b run twice: a.grad = 2 * b.data, b.grad = 2 * a.data
C3_Witness ==
  \E a, b, t \in Ids :
    /\ TwoRunsDone(t)
    /\ a # b /\ IsLeaf(a) /\ IsLeaf(b)
    /\ nodes[t].op = "*" /\ nodes[t].self = a /\ nodes[t].other = b
    /\ nodes[a].data = PyInt(2) /\ nodes[b].data = PyInt(3)
    /\ nodes[a].grad.v = <<6, 1>> /\ nodes[b].grad.v = <<4, 1>>

\* C3, the exact accumulation on an integer add/subtract/multiply graph:
\* after two runs each operand path contributes its product (1 + its length)
\* times, which is twice only for a direct operand.
RECURSIVE WeightedPathSum(_, _, _)
WeightedPathSum(t, n, len) ==
  IF n = t THEN 1 + len
  ELSE SumOver(Consumers(t, n),
               [c \in Consumers(t, n) |-> WeightedPathSum(t, c, len + 1) * Partial(c, n)])

C3_Accumulation ==
  \A t \in Ids :
    (TwoRunsDone(t) /\ ArithGraph(t)) =>
      \A n \in Reach(t) \ {t} : nodes[n].grad.v = <<WeightedPathSum(t, n, 0), 1>>

\* ------------------------------------------------------------- claims on Spec
QMax0(q) == IF q[1] > 0 THEN q ELSE QZero

\* the only operand of a one-operand node
Operand(y) == CHOOSE x \in nodes[y].prev : TRUE

\* one step, seen as a relu() call and as the invocation of a ReLU rule
C6_ReluStep ==
  /\ \A x \in Ids :
       (relu(x) /\ IsNum(nodes[x].data)) =>
         /\ raised' = ""
         /\ Len(nodes') = Len(nodes) + 1
         /\ nodes'[Len(nodes) + 1].data.v = QMax0(nodes[x].data.v)
         /\ nodes'[Len(nodes) + 1].prev = {x}
         /\ nodes'[Len(nodes) + 1].grad = PyInt(0)
  /\ (pc = "loop" /\ i >= 1 /\ nodes[topo[i]].op = "ReLU") =>
       LET y == topo[i]
           x == Operand(y)
       IN  /\ raised' = ""
           /\ nodes'[x].grad.v =
                IF nodes[y].data.v[1] > 0
                THEN QAdd(nodes[x].grad.v, nodes[y].grad.v)
                ELSE nodes[x].grad.v
           /\ \A n \in Ids \ {x} : nodes'[n] = nodes[n]

\* C6: relu(x) on a numeric x makes a new node with value max(0, x.value),
\* gradient 0 and the single operand x; when the loop invokes that node's
\* rule, x.grad grows by the node's current gradient if the node's value is
\* strictly positive and is left alone otherwise, and nothing else changes.
C6_Relu == [][C6_ReluStep]_vars

\* x = 0, y = relu(x), y.backward(): y.value = 0 and x.grad stays 0
C6_Witness ==
  \E x, y \in Ids :
    /\ FirstRunDone(y)
    /\ nodes[y].op = "ReLU" /\ nodes[y].prev = {x}
    /\ nodes[x].data = PyInt(0) /\ nodes[y].data.v = QZero
    /\ nodes[y].grad.v = QOne /\ nodes[x].grad.v = QZero

\* x = 5, y = relu(x), y.backward(): y.value = 5 and x.grad = 1
C6_WitnessPositive ==
  \E x, y \in Ids :
    /\ FirstRunDone(y)
    /\ nodes[y].op = "ReLU" /\ nodes[y].prev = {x}
    /\ nodes[x].data = PyInt(5) /\ nodes[y].data.v = <<5, 1>>
    /\ nodes[x].grad.v = QOne

\* what one step may change
C10_FrameStep ==
  /\ Len(nodes') >= Len(nodes)
  /\ \A n \in Ids :
       /\ nodes'[n].data = nodes[n].data
       /\ nodes'[n].prev = nodes[n].prev
  /\ \A n \in (Len(nodes) + 1)..Len(nodes') : nodes'[n].grad = PyInt(0)
  /\ (pc = "idle" /\ pc' = "idle") => \A n \in Ids : nodes'[n].grad = nodes[n].grad
  /\ (pc = "loop" \/ pc' = "loop") =>
       \A n \in Ids \ Reach(calls'[Len(calls')]) : nodes'[n].grad = nodes[n].grad

\* C10: no step changes the value or the operands of an existing node; a
\* step outside backward() changes no existing gradient and creates nodes
\* with gradient 0 only; a step of backward() on t changes no gradient of a
\* node that is not reachable from t.
C10_Frame == [][C10_FrameStep]_vars

\* backward() on a non-leaf t has run its loop while a consumer of t, not
\* reachable from t, still has the gradient 0
C10_Witness ==
  /\ pc = "loop" /\ i = 0
  /\ ~IsLeaf(Term)
  /\ \E n \in Reach(Term) \ {Term} : nodes[n].grad # PyInt(0)
  /\ \E c \in Ids : Term \in nodes[c].prev /\ nodes[c].grad = PyInt(0)

\* ------------------------------------------------------------- raw operands
NumericRaw == {r \in RawScalars : IsNum(r)}
FloatRaw == {r \in RawScalars : r.k = "float"}

\* The call made two nodes, the leaf lifted from the raw scalar r and the
\* result of "left sym right", and touched no existing node.  rawLeft tells
\* on which side of the operator the raw scalar stands.
LiftedResult(s, r, sym, rawLeft) ==
  LET l == Len(nodes) + 1
      o == Len(nodes) + 2
  IN  /\ raised' = ""
      /\ Len(nodes') = Len(nodes) + 2
      /\ \A n \in Ids : nodes'[n] = nodes[n]
      /\ nodes'[l].data = r /\ nodes'[l].grad = PyInt(0) /\ nodes'[l].prev = {}
      /\ nodes'[o].data =
           (IF rawLeft THEN PyOp(sym, r, nodes[s].data) ELSE PyOp(sym, nodes[s].data, r))
      /\ nodes'[o].grad = PyInt(0)
      /\ nodes'[o].prev = {s, l}
      /\ nodes'[o].op = sym
      /\ nodes'[o].self = (IF rawLeft THEN l ELSE s)
      /\ nodes'[o].other = (IF rawLeft THEN s ELSE l)

\* the operation is defined on the values: both numeric, no zero divisor
Defined(sym, x, y) == IsNum(x) /\ IsNum(y) /\ (sym = "/" => y.v[1] # 0)

\* one step, seen as a binary operation of a node with a raw scalar of R
RawOperandStep(R) ==
  \A s \in Ids, r \in R :
    /\ (add(s, r) /\ Defined("+", nodes[s].data, r)) => LiftedResult(s, r, "+", FALSE)
    /\ (sub(s, r) /\ Defined("-", nodes[s].data, r)) => LiftedResult(s, r, "-", FALSE)
    /\ (mul(s, r) /\ Defined("*", nodes[s].data, r)) => LiftedResult(s, r, "*", FALSE)
    /\ (truediv(s, r) /\ Defined("/", nodes[s].data, r)) => LiftedResult(s, r, "/", FALSE)
    /\ (radd(s, r) /\ Defined("+", nodes[s].data, r)) => LiftedResult(s, r, "+", FALSE)
    /\ (rmul(s, r) /\ Defined("*", nodes[s].data, r)) => LiftedResult(s, r, "*", FALSE)

\* C4: a binary operation of a node with a raw numeric scalar, int or float,
\* succeeds: the scalar is lifted to a new leaf with gradient 0 and the result
\* is a new node over the node and the lifted leaf.
C4_RawOperandLifted == [][RawOperandStep(NumericRaw)]_vars

\* C4 for float-typed raw scalars only (this much the code does).
C4_FloatOperandLifted == [][RawOperandStep(FloatRaw)]_vars

\* one step, seen as a reflected subtract or divide with a raw scalar of R
ReflectedStep(R) ==
  \A a \in Ids, k \in R :
    /\ (rsub(a, k) /\ Defined("-", k, nodes[a].data)) => LiftedResult(a, k, "-", TRUE)
    /\ (rtruediv(a, k) /\ Defined("/", k, nodes[a].data)) => LiftedResult(a, k, "/", TRUE)

\* what the subtract and divide rules add to the gradients of their operands
SubDivRuleStep ==
  (pc = "loop" /\ i >= 1 /\ nodes[topo[i]].op \in {"-", "/"}
     /\ nodes[topo[i]].self # nodes[topo[i]].other /\ raised' = "") =>
    LET y == nodes[topo[i]]
        g == y.grad
        x == nodes[y.self].data
        z == nodes[y.other].data
    IN  IF y.op = "-"
        THEN /\ nodes'[y.self].grad = PyAdd(nodes[y.self].grad, g)
             /\ nodes'[y.other].grad = PyAdd(nodes[y.other].grad, PyNeg(g))
        ELSE /\ nodes'[y.self].grad = PyAdd(nodes[y.self].grad, PyDiv(g, z))
             /\ nodes'[y.other].grad =
                  PyAdd(nodes[y.other].grad, PyMul(g, PyDiv(PyNeg(x), PyMul(z, z))))

\* C5: k - a and k / a, for a raw numeric scalar k and a node a, make a node
\* with the value k - a.value (k / a.value) whose first operand is the lifted
\* k and whose second is a, so that the rule adds -g (g * (-k / a.value^2))
\* to a.grad.
C5_ReflectedOrder == [][ReflectedStep(NumericRaw) /\ SubDivRuleStep]_vars

\* C5 for float-typed raw scalars only (this much the code does).
C5_FloatReflectedOrder == [][ReflectedStep(FloatRaw) /\ SubDivRuleStep]_vars

\* a divide call whose divisor is the numeric zero
ZeroDivide ==
  \/ \E s \in Ids, o \in Others :
       /\ truediv(s, o)
       /\ IsNum(nodes[s].data)
       /\ IF o.k = "Scalar" THEN nodes[o.v[1]].data \in {PyInt(0), PyFloat(0, 1)}
          ELSE o = PyFloat(0, 1)
  \/ \E s \in Ids, o \in FloatRaw :
       /\ rtruediv(s, o)
       /\ nodes[s].data \in {PyInt(0), PyFloat(0, 1)}

\* every divide node has a non-zero divisor
NoZeroDivisor == \A n \in Ids : nodes[n].op = "/" => nodes[nodes[n].other].data.v[1] # 0

\* the forward half of C7: a divide by zero raises and builds nothing
ForwardZeroDivideStep ==
  /\ ZeroDivide => (raised' = "ZeroDivisionError" /\ nodes' = nodes)
  /\ NoZeroDivisor'

\* C7: a divide by a zero-valued operand raises at the forward operation and
\* changes nothing, no divide node has a zero divisor, and no rule divides by
\* zero during backward().
C7_DivideByZero ==
  [][ForwardZeroDivideStep /\ (pc = "loop" => raised' # "ZeroDivisionError")]_vars

\* the forward half of C7 alone (this much the code does)
C7_ForwardZeroDivide == [][ForwardZeroDivideStep]_vars

\* C8: no node ever holds a non-numeric value, and no type error surfaces
\* inside backward().
C8_TypeChecked ==
  [][/\ \A n \in 1..Len(nodes') : IsNum(nodes'[n].data)
     /\ pc = "loop" => raised' \notin {"TypeError", "AttributeError"}]_vars

\* the second half of C8 alone: no type error surfaces inside backward()
C8_NoTypeErrorInBackward ==
  [][pc = "loop" => raised' \notin {"TypeError", "AttributeError"}]_vars
====
